---- MODULE Spec2Model ----
(***************************************************************************)
(* Model of tables-to-go (src/src/tablestogo.go): the run orchestrator     *)
(* Run/run, the struct emitter createStructOfTable and the type mapper     *)
(* mapDbColumnTypeToGoType.                                                *)
(*                                                                         *)
(* Strings are sequences of tokens.  Identifiers (table, column, package   *)
(* names) are spelled character by character, so that strings.Title and    *)
(* the identifier syntax act on characters; fixed literals of the source   *)
(* ("package ", "\t\"database/sql\"") are one token each; a path is a      *)
(* sequence in which "/" is the separator token.                           *)
(***************************************************************************)
EXTENDS Integers, Sequences, FiniteSets, TLC

VARIABLES
    settings,   \* the package-level *Settings (line 34), or the value passed to Run
    pc,         \* position of the call in progress
    db,         \* the package-level handle (line 19): "nil", "open" or "closed"
    tables,     \* the []*Table returned by GetTables, columns filled by GetColumnsOfTable
    idx,        \* index of the table the loop of run is at (1-based)
    fs,         \* the files on disk: path -> content (a sequence of lines)
    err,        \* the error the call returned, "nil" while none
    log,        \* history: the external calls made so far, with their outcomes
    arg,        \* argument of a direct call (type mapper, struct emitter)
    ret         \* locals/results of the last createStructOfTable or mapper call

vars == <<settings, pc, db, tables, idx, fs, err, log, arg, ret>>

----------------------------------------------------------------------------
(* Bounds *)

MaxTables == 2      \* longest table list GetTables returns
MaxCols   == 2      \* longest column list of a table given to a direct emitter call

----------------------------------------------------------------------------
(* Strings *)

\* the back quote that delimits a Go raw string (a field tag)
BQ == "BACKQUOTE"

\* strings.Contains, on token sequences: the searched literal is one token
Contains(s, tok) == \E i \in DOMAIN s : s[i] = tok

LowerChars ==
    <<"a", "b", "c", "d", "e", "f", "g", "h", "i", "j", "k", "l", "m",
      "n", "o", "p", "q", "r", "s", "t", "u", "v", "w", "x", "y", "z">>
UpperChars ==
    <<"A", "B", "C", "D", "E", "F", "G", "H", "I", "J", "K", "L", "M",
      "N", "O", "P", "Q", "R", "S", "T", "U", "V", "W", "X", "Y", "Z">>
DigitChars == {"0", "1", "2", "3", "4", "5", "6", "7", "8", "9"}

LowerSet == { LowerChars[i] : i \in DOMAIN LowerChars }
UpperSet == { UpperChars[i] : i \in DOMAIN UpperChars }

IsLower(c) == c \in LowerSet
IsUpper(c) == c \in UpperSet
IsLetter(c) == IsLower(c) \/ IsUpper(c)
IsDigit(c) == c \in DigitChars

\* unicode.ToTitle on the ASCII letters
ToTitle(c) ==
    IF IsLower(c)
    THEN UpperChars[CHOOSE i \in DOMAIN LowerChars : LowerChars[i] = c]
    ELSE c

\* strings.isSeparator: ASCII letters, digits and underscore are no separators,
\* every other ASCII character is
isSeparator(c) == ~(IsLetter(c) \/ IsDigit(c) \/ c = "_")

\* strings.Title: upper-cases the first character of the string and every
\* character that follows a separator
Title(s) ==
    [i \in DOMAIN s |->
        IF i = 1 \/ isSeparator(s[i - 1]) THEN ToTitle(s[i]) ELSE s[i]]

RECURSIVE CamelFrom(_, _, _)
CamelFrom(s, i, capNext) ==
    IF i > Len(s) THEN <<>>
    ELSE IF ~(IsLetter(s[i]) \/ IsDigit(s[i])) THEN CamelFrom(s, i + 1, TRUE)
    ELSE <<IF capNext THEN ToTitle(s[i]) ELSE s[i]>> \o CamelFrom(s, i + 1, FALSE)

\* CamelCaseString (not in src/): splits on the non-alphanumeric separators,
\* capitalizes each segment and concatenates the segments
CamelCaseString(s) == CamelFrom(s, 1, TRUE)

\* Go identifier syntax, as the parser behind format.Source requires it
IsGoIdentifier(s) ==
    /\ Len(s) > 0
    /\ IsLetter(s[1]) \/ s[1] = "_"
    /\ \A i \in DOMAIN s : IsLetter(s[i]) \/ IsDigit(s[i]) \/ s[i] = "_"

----------------------------------------------------------------------------
(* Type mapper *)

\* fault-injected variant of SelectByNullability: the flag is not consulted
SelectByNullabilityIgnoringFlag(isNullable, plain, nullable) == plain

\* lines 344-347 (and 350-353, 356-359, 362-365, 368-371):
\* goType = plain; if isNullable == "YES" { goType = nullable }
SelectByNullability(isNullable, plain, nullable) ==
    IF isNullable = "YES" THEN nullable ELSE plain

mapDbColumnTypeToGoType(dbDataType, isNullable) ==
    CASE dbDataType \in {"integer", "bigint", "bigserial", "smallint", "smallserial",
                         "serial", "int", "tinyint", "mediumint"} ->
            [goType |-> SelectByNullability(isNullable, "int", "sql.NullInt64"),
             isTime |-> FALSE]
      [] dbDataType \in {"double precision", "numeric", "decimal", "real",
                         "float", "double"} ->
            [goType |-> SelectByNullability(isNullable, "float64", "sql.NullFloat64"),
             isTime |-> FALSE]
      [] dbDataType \in {"character varying", "character", "text", "char", "varchar",
                         "binary", "varbinary", "blob"} ->
            [goType |-> SelectByNullability(isNullable, "string", "sql.NullString"),
             isTime |-> FALSE]
      [] dbDataType \in {"time", "timestamp", "time with time zone",
                         "timestamp with time zone", "time without time zone",
                         "timestamp without time zone", "date", "datetime", "year"} ->
            [goType |-> SelectByNullability(isNullable, "time.Time", "pq.NullTime"),
             isTime |-> TRUE]
      [] dbDataType = "boolean" ->
            [goType |-> SelectByNullability(isNullable, "bool", "sql.NullBool"),
             isTime |-> FALSE]
      [] OTHER ->
            [goType |-> "sql.NullString", isTime |-> FALSE]

----------------------------------------------------------------------------
(* Struct emitter: the text createStructOfTable generates *)

\* fault-injected variant of IsAutoIncrementPk: only the PostgreSQL signal is looked at
IsAutoIncrementPkPgOnly(column) == Contains(column.ColumnDefault, "nextval")

\* lines 252-253: the condition under which isPk gets the role markers
IsAutoIncrementPk(column) ==
    \/ Contains(column.ColumnDefault, "nextval")
    \/ (Contains(column.ColumnKey, "PRI") /\ Contains(column.Extra, "auto_increment"))

\* lines 249-258: the value of mastermindStructableAnnotation after the column;
\* prev is its value before (the variable is declared outside the loop)
Annotation(s, column, prev) ==
    IF s.IsMastermindStructable \/ s.IsMastermindStructableOnly
    THEN <<" stbl:\"">> \o column.ColumnName
            \o (IF IsAutoIncrementPk(column)
                THEN <<",PRIMARY_KEY,SERIAL,AUTO_INCREMENT">> ELSE <<>>)
            \o <<"\"">>
    ELSE prev

\* lines 243-246: the field name of a column
FieldName(s, column) ==
    IF s.OutputFormat = "c"
    THEN CamelCaseString(Title(column.ColumnName))
    ELSE Title(column.ColumnName)

\* lines 260-264: the line written to colBuffer for a column
FieldLine(s, column, annotation) ==
    LET colName == FieldName(s, column)
        colType == mapDbColumnTypeToGoType(column.DataType, column.IsNullable).goType
    IN  IF s.IsMastermindStructableOnly
        THEN <<"\t">> \o colName \o <<" ", colType, " ", BQ>> \o annotation \o <<BQ>>
        ELSE <<"\t">> \o colName \o <<" ", colType, " ", BQ>>
                \o <<"db:\"">> \o column.ColumnName \o <<"\"">> \o annotation \o <<BQ>>

\* lines 236-239: the locals before the loop
LoopStart ==
    [colBuffer |-> <<>>, isNullable |-> FALSE, timeIndicator |-> 0,
     mastermindStructableAnnotation |-> <<>>]

\* lines 241-273: one iteration of the loop over table.Columns
LoopBody(s, acc, column) ==
    LET annotation == Annotation(s, column, acc.mastermindStructableAnnotation)
        isTime == mapDbColumnTypeToGoType(column.DataType, column.IsNullable).isTime
    IN  [colBuffer |-> Append(acc.colBuffer, FieldLine(s, column, annotation)),
         isNullable |-> acc.isNullable \/ column.IsNullable = "YES",
         timeIndicator |-> acc.timeIndicator + (IF isTime THEN 1 ELSE 0),
         mastermindStructableAnnotation |-> annotation]

RECURSIVE ColumnLoop(_, _, _)
ColumnLoop(s, columns, n) ==
    IF n = 0 THEN LoopStart
    ELSE LoopBody(s, ColumnLoop(s, columns, n - 1), columns[n])

\* lines 275 and 310: recorder augmentation is active
RecorderActive(s) ==
    s.IsMastermindStructableRecorder
        /\ (s.IsMastermindStructable \/ s.IsMastermindStructableOnly)

\* lines 275-277: "\t\nstructable.Recorder\n" appended to colBuffer
RecorderLines(s) ==
    IF RecorderActive(s) THEN << <<"\t">>, <<"structable.Recorder">> >> ELSE <<>>

\* lines 280-284: the type name and the file name of a table
TypeName(s, table) ==
    LET tableName == Title(s.Prefix \o table.TableName \o s.Suffix)
    IN  IF s.OutputFormat = "c" THEN CamelCaseString(tableName) ELSE tableName

FileName(s, table) == TypeName(s, table) \o <<".go">>

\* line 295: the condition under which an import block is written
WritesImportBlock(s, acc) ==
    \/ acc.isNullable
    \/ acc.timeIndicator > 0
    \/ s.IsMastermindStructable
    \/ s.IsMastermindStructableOnly

\* lines 302-308: the import written for the temporal columns
TimeImportLines(acc) ==
    IF acc.timeIndicator > 0
    THEN IF acc.isNullable
         THEN << <<"\t">>, <<"\"github.com/lib/pq\"">> >>
         ELSE << <<"\t\"time\"">> >>
    ELSE <<>>

\* lines 294-315
ImportLines(s, acc) ==
    IF WritesImportBlock(s, acc)
    THEN << <<"import (">> >>
            \o (IF acc.isNullable THEN << <<"\t\"database/sql\"">> >> ELSE <<>>)
            \o TimeImportLines(acc)
            \o (IF RecorderActive(s)
                THEN << <<"\t">>, <<"\"github.com/Masterminds/structable\"">> >>
                ELSE <<>>)
            \o << <<")">>, <<>> >>
    ELSE <<>>

\* lines 236-284: the locals of createStructOfTable when it calls os.Create
GenerateFields(s, table) ==
    LET acc == ColumnLoop(s, table.Columns, Len(table.Columns))
    IN  [colBuffer |-> acc.colBuffer \o RecorderLines(s),
         fileName |-> FileName(s, table),
         buffer |-> <<>>]

\* lines 291-320: the locals when the text is complete
GenerateStruct(s, table) ==
    LET acc == ColumnLoop(s, table.Columns, Len(table.Columns))
        gen == GenerateFields(s, table)
    IN  [gen EXCEPT !.buffer =
            << <<"package ">> \o s.PackageName, <<>> >>
                \o ImportLines(s, acc)
                \o << <<"type ">> \o TypeName(s, table) \o <<" struct {">> >>
                \o gen.colBuffer
                \o << <<"}">> >>]

----------------------------------------------------------------------------
(* Paths: path/filepath on token sequences, "/" the separator *)

RECURSIVE SplitFrom(_, _, _)
\* the components of path from position i on; cur is the component being read
SplitFrom(path, i, cur) ==
    IF i > Len(path) THEN <<cur>>
    ELSE IF path[i] = "/" THEN <<cur>> \o SplitFrom(path, i + 1, <<>>)
    ELSE SplitFrom(path, i + 1, Append(cur, path[i]))

RECURSIVE CleanComponents(_, _, _, _)
\* filepath.Clean's pass over the components: empty and "." are dropped,
\* ".." removes the component before it (at the root it is dropped)
CleanComponents(comps, i, out, rooted) ==
    IF i > Len(comps) THEN out
    ELSE LET c == comps[i]
         IN  IF c = <<>> \/ c = <<".">>
             THEN CleanComponents(comps, i + 1, out, rooted)
             ELSE IF c = <<"..">>
             THEN IF Len(out) > 0 /\ out[Len(out)] # <<"..">>
                  THEN CleanComponents(comps, i + 1, SubSeq(out, 1, Len(out) - 1), rooted)
                  ELSE IF rooted
                  THEN CleanComponents(comps, i + 1, out, rooted)
                  ELSE CleanComponents(comps, i + 1, Append(out, c), rooted)
             ELSE CleanComponents(comps, i + 1, Append(out, c), rooted)

RECURSIVE JoinComponents(_, _)
JoinComponents(comps, i) ==
    IF i > Len(comps) THEN <<>>
    ELSE (IF i > 1 THEN <<"/">> ELSE <<>>) \o comps[i] \o JoinComponents(comps, i + 1)

IsAbs(path) == Len(path) > 0 /\ path[1] = "/"

\* filepath.Clean: the shortest equivalent path; no trailing separator is kept
\* unless the path is the root
Clean(path) ==
    LET rooted == IsAbs(path)
        comps == CleanComponents(SplitFrom(path, 1, <<>>), 1, <<>>, rooted)
        body == JoinComponents(comps, 1)
    IN  IF rooted THEN <<"/">> \o body
        ELSE IF body = <<>> THEN <<".">> ELSE body

\* os.Getwd
Getwd == <<"/", "w">>

\* filepath.Abs: Clean(path) when absolute, else Join(wd, path)
Abs(path) == IF IsAbs(path) THEN Clean(path) ELSE Clean(Getwd \o <<"/">> \o path)

\* filepath.Dir: the path without its last element
Dir(path) ==
    LET comps == CleanComponents(SplitFrom(path, 1, <<>>), 1, <<>>, IsAbs(path))
    IN  Clean((IF IsAbs(path) THEN <<"/">> ELSE <<>>)
                \o JoinComponents(SubSeq(comps, 1, Len(comps) - 1), 1))

\* the directories that exist on disk, and a regular file that is no directory
Dirs == { <<"/">>, <<"/", "w">>, <<"/", "w", "/", "output">>, <<"/", "w", "/", "out">> }
RegularFiles == { <<"/", "w", "/", "f">> }

\* lines 156-159
prepareOutputPath(ofp) == Abs(ofp \o <<"/">>)

\* lines 141-154: "nil" or the error (os.Stat resolves a relative path
\* against the working directory)
verifyOutputPath(outputFilePath) ==
    LET target == IF outputFilePath = <<>> THEN <<>> ELSE Abs(outputFilePath)
    IN  IF target \notin Dirs \cup RegularFiles THEN "does not exists"
        ELSE IF target \notin Dirs THEN "is not a directory"
        ELSE "nil"

----------------------------------------------------------------------------
(* Settings *)

SupportedDbTypes == {"pg", "mysql"}
SupportedOutputFormats == {"c", "o"}

DbDefaultPorts(dbType) == IF dbType = "mysql" THEN "3306" ELSE "5432"

\* lines 57-76
NewSettings ==
    [DbType |-> "pg",
     Port |-> "5432",
     OutputFilePath |-> <<".", "/", "output">>,
     OutputFormat |-> "c",
     PackageName |-> <<"d", "t", "o">>,
     Prefix |-> <<>>,
     Suffix |-> <<>>,
     IsMastermindStructable |-> FALSE,
     IsMastermindStructableOnly |-> FALSE,
     IsMastermindStructableRecorder |-> FALSE]

\* lines 112-139: the error ("nil" when none) and the settings as left behind
VerifySettings(s) ==
    IF s.DbType \notin SupportedDbTypes
    THEN [err |-> "type of database not supported", settings |-> s]
    ELSE IF s.OutputFormat \notin SupportedOutputFormats
    THEN [err |-> "output format not supported", settings |-> s]
    ELSE IF verifyOutputPath(s.OutputFilePath) # "nil"
    THEN [err |-> verifyOutputPath(s.OutputFilePath), settings |-> s]
    ELSE LET s1 == [s EXCEPT !.OutputFilePath = prepareOutputPath(s.OutputFilePath)]
             s2 == IF s1.Port = "" THEN [s1 EXCEPT !.Port = DbDefaultPorts(s1.DbType)]
                   ELSE s1
         IN  IF s2.PackageName = <<>>
             THEN [err |-> "name of package can not be empty", settings |-> s2]
             ELSE [err |-> "nil", settings |-> s2]

----------------------------------------------------------------------------
(* format.Source and the file written by createStructOfTable *)

\* the first position of tok in line (0 when absent)
IndexOf(line, tok) ==
    IF Contains(line, tok)
    THEN CHOOSE i \in DOMAIN line : line[i] = tok /\ \A j \in 1..(i - 1) : line[j] # tok
    ELSE 0

\* the identifiers the Go parser meets in the generated text
SourceIdentifiers(src) ==
    { Tail(src[i]) : i \in { j \in DOMAIN src : Len(src[j]) > 0 /\ src[j][1] = "package " } }
    \cup { SubSeq(src[i], 2, Len(src[i]) - 1) :
            i \in { j \in DOMAIN src : Len(src[j]) > 0 /\ src[j][1] = "type " } }
    \cup { SubSeq(src[i], 2, IndexOf(src[i], " ") - 1) :
            i \in { j \in DOMAIN src : Len(src[j]) > 1 /\ src[j][1] = "\t" } }

\* gofmt's layout, as far as lines of tokens show it: a line of white space
\* becomes an empty line
Gofmt(src) == [i \in DOMAIN src |-> IF src[i] = <<"\t">> THEN <<>> ELSE src[i]]

\* go/format.Source: the formatted text, or (nil, err) when src does not parse
formatSource(src) ==
    IF \A id \in SourceIdentifiers(src) : IsGoIdentifier(id)
    THEN [out |-> Gofmt(src), err |-> "nil"]
    ELSE [out |-> <<>>, err |-> "syntax error"]

IoOutcomes == {"none", "Write", "Sync", "Close"}

\* line 285: the path handed to os.Create
OutputPath(s, fileName) == s.OutputFilePath \o fileName

\* lines 234-331, given the outcome of os.Create and the first of Write, Sync
\* and Close that fails ("none": all succeed): the returned error, the locals
\* and the file system afterwards
createStructOfTable(s, table, disk, createOk, ioFail) ==
    LET gen == GenerateStruct(s, table)
        path == OutputPath(s, gen.fileName)
        formatedFile == formatSource(gen.buffer)
        written == IF ioFail = "Write" THEN <<>> ELSE formatedFile.out
    IN  IF ~createOk
        THEN [err |-> "os.Create failed", path |-> path, gen |-> GenerateFields(s, table),
              formatErr |-> "not called", fs |-> disk]
        ELSE [err |-> "nil", path |-> path, gen |-> gen,
              formatErr |-> formatedFile.err,
              fs |-> [p \in DOMAIN disk \cup {path} |->
                        IF p = path THEN written ELSE disk[p]]]

----------------------------------------------------------------------------
(* Inputs *)

\* the table names of the catalog, in ascending (byte) order
TableCatalog ==
    << <<"2", "f", "a">>, <<"U", "s">>, <<"u", "_", "s">>, <<"u", "s">> >>

RECURSIVE TablesOf(_, _)
\* the tables named by the index set picked, in catalog order
TablesOf(picked, i) ==
    IF i > Len(TableCatalog) THEN <<>>
    ELSE (IF i \in picked
          THEN << [TableName |-> TableCatalog[i], Columns |-> <<>>] >> ELSE <<>>)
         \o TablesOf(picked, i + 1)

\* what GetTables can return: the base tables of the schema ordered by name
TableLists ==
    { TablesOf(picked, 1) :
        picked \in { p \in SUBSET (DOMAIN TableCatalog) : Cardinality(p) <= MaxTables } }

Col(name, dataType, isNullable, default, key, extra) ==
    [ColumnName |-> name, DataType |-> dataType, IsNullable |-> isNullable,
     ColumnDefault |-> default, ColumnKey |-> key, Extra |-> extra]

NextvalDefault == <<"nextval", "('us_id_seq'::regclass)">>

\* the columns a table given to the emitter is made of
ColumnCatalog ==
    { Col(<<"i", "d">>, "integer", "NO", NextvalDefault, <<>>, <<>>),
      Col(<<"i", "d">>, "int", "NO", <<>>, <<"PRI">>, <<"auto_increment">>),
      Col(<<"i", "d">>, "int", "NO", <<>>, <<"PRI">>, <<>>),
      Col(<<"n", "o">>, "bigint", "YES", <<"0">>, <<"UNI">>, <<"auto_increment">>),
      Col(<<"s", "_", "a">>, "varchar", "NO", <<>>, <<>>, <<>>),
      Col(<<"a", "t">>, "timestamp", "NO", <<>>, <<>>, <<>>),
      Col(<<"u", "a", "t">>, "datetime", "YES", <<>>, <<>>, <<>>),
      Col(<<"d", "o", "c">>, "json", "NO", <<>>, <<>>, <<>>),
      Col(<<"1", "s", "t">>, "uuid", "YES", <<>>, <<>>, <<>>) }

RECURSIVE SeqsUpTo(_, _)
\* the sequences over S of length at most n
SeqsUpTo(S, n) ==
    IF n = 0 THEN { <<>> }
    ELSE LET shorter == SeqsUpTo(S, n - 1)
         IN  shorter \cup { Append(q, x) : q \in shorter, x \in S }

\* the column lists GetColumnsOfTable fills a table with during a run
RunColumnLists ==
    { << Col(<<"i", "d">>, "integer", "NO", NextvalDefault, <<>>, <<>>) >>,
      << Col(<<"i", "d">>, "integer", "NO", NextvalDefault, <<>>, <<>>),
         Col(<<"s", "_", "b">>, "varchar", "YES", <<>>, <<>>, <<>>),
         Col(<<"a", "t">>, "timestamp", "NO", <<>>, <<>>, <<>>) >> }

\* the settings handed to Run: the defaults of NewSettings, one field changed
RunSettings ==
    { NewSettings }
    \cup { [NewSettings EXCEPT !.DbType = d] : d \in {"mysql", "oracle"} }
    \cup { [NewSettings EXCEPT !.OutputFormat = f] : f \in {"o", "x"} }
    \cup { [NewSettings EXCEPT !.OutputFilePath = o] :
            o \in { <<"/">>, <<"out", "/">>, <<"/", "w", "/", "out", "/", "..", "/", "out">>,
                    <<"f">>, <<"m">>, <<>> } }
    \cup { [NewSettings EXCEPT !.PackageName = <<>>], [NewSettings EXCEPT !.Port = ""],
           [NewSettings EXCEPT !.Prefix = <<"t", "_">>],
           [NewSettings EXCEPT !.IsMastermindStructable = TRUE,
                               !.IsMastermindStructableRecorder = TRUE] }

\* the settings in force at a direct call of createStructOfTable: verified
\* defaults, every output style and every combination of the annotation flags
EmitSettings ==
    { [VerifySettings(NewSettings).settings EXCEPT
            !.OutputFormat = f,
            !.IsMastermindStructable = a,
            !.IsMastermindStructableOnly = o,
            !.IsMastermindStructableRecorder = r] :
        f \in SupportedOutputFormats, a \in BOOLEAN, o \in BOOLEAN, r \in BOOLEAN }

EmitTables ==
    { [TableName |-> <<"u", "s">>, Columns |-> cols] :
        cols \in SeqsUpTo(ColumnCatalog, MaxCols) }

\* the raw types the mapper is called with: every type it names and some it does not
RawTypes ==
    {"integer", "bigint", "bigserial", "smallint", "smallserial", "serial", "int",
     "tinyint", "mediumint",
     "double precision", "numeric", "decimal", "real", "float", "double",
     "character varying", "character", "text", "char", "varchar", "binary",
     "varbinary", "blob",
     "time", "timestamp", "time with time zone", "timestamp with time zone",
     "time without time zone", "timestamp without time zone", "date", "datetime",
     "year",
     "boolean",
     "json", "uuid", "INTEGER", ""}

None == [none |-> TRUE]

----------------------------------------------------------------------------
(* Run (lines 78-110) and run (lines 186-231) *)

Init ==
    /\ settings \in RunSettings
    /\ pc = "Run"
    /\ db = "nil"
    /\ tables = <<>>
    /\ idx = 0
    /\ fs = << >>
    /\ err = "nil"
    /\ log = <<>>
    /\ arg = None
    /\ ret = None

\* a return of Run: the deferred db.Close() of line 90 runs if it was registered
Return(e, deferred) ==
    /\ pc' = "returned"
    /\ err' = e
    /\ db' = IF deferred THEN "closed" ELSE db

\* lines 80-84
RunVerifySettings ==
    /\ pc = "Run"
    /\ LET v == VerifySettings(settings)
       IN  /\ settings' = v.settings
           /\ IF v.err # "nil"
              THEN Return(v.err, FALSE)
              ELSE pc' = "connect" /\ UNCHANGED <<db, err>>
    /\ log' = Append(log, [op |-> "VerifySettings"])
    /\ UNCHANGED <<tables, idx, fs, arg, ret>>

\* lines 86-90 with connect (161-173): sqlx.Connect fails and leaves no handle;
\* or it opens one and the db.Ping() of line 172 fails or succeeds
RunConnect ==
    /\ pc = "connect"
    /\ \E outcome \in {"sqlx.Connect failed", "db.Ping failed", "nil"} :
        /\ log' = Append(log, [op |-> "connect", err |-> outcome])
        /\ CASE outcome = "sqlx.Connect failed" ->
                    /\ pc' = "returned" /\ err' = outcome /\ db' = "nil"
             [] outcome = "db.Ping failed" ->
                    /\ pc' = "returned" /\ err' = outcome /\ db' = "open"
             [] OTHER ->
                    /\ pc' = "GetTables" /\ err' = err /\ db' = "open"
    /\ UNCHANGED <<settings, tables, idx, fs, arg, ret>>

\* lines 190-194
RunGetTables ==
    /\ pc = "GetTables"
    /\ \/ /\ Return("GetTables failed", TRUE)
          /\ log' = Append(log, [op |-> "GetTables", err |-> "GetTables failed"])
          /\ UNCHANGED tables
       \/ /\ \E list \in TableLists : tables' = list
          /\ log' = Append(log, [op |-> "GetTables", err |-> "nil"])
          /\ pc' = "PrepareGetColumnsOfTableStmt"
          /\ UNCHANGED <<db, err>>
    /\ UNCHANGED <<settings, idx, fs, arg, ret>>

\* lines 200-204, and the entry into the loop of line 206
RunPrepareGetColumnsOfTableStmt ==
    /\ pc = "PrepareGetColumnsOfTableStmt"
    /\ \/ /\ Return("PrepareGetColumnsOfTableStmt failed", TRUE)
          /\ log' = Append(log, [op |-> "PrepareGetColumnsOfTableStmt",
                                 err |-> "PrepareGetColumnsOfTableStmt failed"])
          /\ UNCHANGED idx
       \/ /\ log' = Append(log, [op |-> "PrepareGetColumnsOfTableStmt", err |-> "nil"])
          /\ pc' = "GetColumnsOfTable"
          /\ idx' = 1
          /\ UNCHANGED <<db, err>>
    /\ UNCHANGED <<settings, tables, fs, arg, ret>>

\* lines 206, 228-230: the range is exhausted
RunDone ==
    /\ pc = "GetColumnsOfTable"
    /\ idx > Len(tables)
    /\ Return(err, TRUE)
    /\ UNCHANGED <<settings, tables, idx, fs, log, arg, ret>>

\* fault-injected variant of RunGetColumnsOfTable: a table whose columns cannot
\* be fetched is skipped
RunGetColumnsOfTableSkipping ==
    /\ pc = "GetColumnsOfTable"
    /\ idx <= Len(tables)
    /\ \/ /\ log' = Append(log, [op |-> "GetColumnsOfTable", table |-> idx,
                                 err |-> "GetColumnsOfTable failed"])
          /\ idx' = idx + 1
          /\ UNCHANGED <<tables, pc, db, err>>
       \/ /\ \E cols \in RunColumnLists :
                tables' = [tables EXCEPT ![idx].Columns = cols]
          /\ log' = Append(log, [op |-> "GetColumnsOfTable", table |-> idx, err |-> "nil"])
          /\ pc' = "createStructOfTable"
          /\ UNCHANGED <<db, err, idx>>
    /\ UNCHANGED <<settings, fs, arg, ret>>

\* lines 206-216
RunGetColumnsOfTable ==
    /\ pc = "GetColumnsOfTable"
    /\ idx <= Len(tables)
    /\ \/ /\ Return("GetColumnsOfTable failed", TRUE)
          /\ log' = Append(log, [op |-> "GetColumnsOfTable", table |-> idx,
                                 err |-> "GetColumnsOfTable failed"])
          /\ UNCHANGED tables
       \/ /\ \E cols \in RunColumnLists :
                tables' = [tables EXCEPT ![idx].Columns = cols]
          /\ log' = Append(log, [op |-> "GetColumnsOfTable", table |-> idx, err |-> "nil"])
          /\ pc' = "createStructOfTable"
          /\ UNCHANGED <<db, err>>
    /\ UNCHANGED <<settings, idx, fs, arg, ret>>

\* os.Create can succeed only in a directory that exists
CanCreate(path) == Dir(path) \in Dirs /\ path \notin Dirs

\* the entry of the history for a call of createStructOfTable
CreateEntry(table, r, createOk, ioFail) ==
    [op |-> "createStructOfTable", table |-> table, path |-> r.path,
     created |-> createOk, ioFail |-> IF createOk THEN ioFail ELSE "not called",
     formatErr |-> r.formatErr, err |-> r.err]

\* lines 218-226
RunCreateStructOfTable ==
    /\ pc = "createStructOfTable"
    /\ \E createOk \in BOOLEAN, ioFail \in IoOutcomes :
        LET r == createStructOfTable(settings, tables[idx], fs, createOk, ioFail)
        IN  /\ createOk => CanCreate(r.path)
            /\ ~createOk => ioFail = "none"
            /\ fs' = r.fs
            /\ ret' = r.gen
            /\ log' = Append(log, CreateEntry(idx, r, createOk, ioFail))
            /\ IF r.err # "nil"
               THEN Return(r.err, TRUE) /\ UNCHANGED idx
               ELSE pc' = "GetColumnsOfTable" /\ idx' = idx + 1 /\ UNCHANGED <<db, err>>
    /\ UNCHANGED <<settings, tables, arg>>

Next ==
    \/ RunVerifySettings
    \/ RunConnect
    \/ RunGetTables
    \/ RunPrepareGetColumnsOfTableStmt
    \/ RunGetColumnsOfTable
    \/ RunCreateStructOfTable
    \/ RunDone

Spec == Init /\ [][Next]_vars

----------------------------------------------------------------------------
(* Direct calls of the type mapper and of the struct emitter *)

InitMap ==
    /\ settings = NewSettings
    /\ pc = "mapDbColumnTypeToGoType"
    /\ db = "nil"
    /\ tables = <<>>
    /\ idx = 0
    /\ fs = << >>
    /\ err = "nil"
    /\ log = <<>>
    /\ arg \in [dbDataType : RawTypes, isNullable : {"YES", "NO"}]
    /\ ret = None

\* a call mapDbColumnTypeToGoType(arg.dbDataType, arg.isNullable)
CallMapper ==
    /\ pc = "mapDbColumnTypeToGoType"
    /\ ret' = mapDbColumnTypeToGoType(arg.dbDataType, arg.isNullable)
    /\ pc' = "returned"
    /\ UNCHANGED <<settings, db, tables, idx, fs, err, log, arg>>

NextMap == CallMapper

SpecMap == InitMap /\ [][NextMap]_vars

InitEmit ==
    /\ settings \in EmitSettings
    /\ pc = "createStructOfTable"
    /\ db = "nil"
    /\ tables = <<>>
    /\ idx = 0
    /\ fs = << >>
    /\ err = "nil"
    /\ log = <<>>
    /\ arg \in EmitTables
    /\ ret = None

\* a call createStructOfTable(arg) under the settings in force
CallCreateStructOfTable ==
    /\ pc = "createStructOfTable"
    /\ \E createOk \in BOOLEAN, ioFail \in IoOutcomes :
        LET r == createStructOfTable(settings, arg, fs, createOk, ioFail)
        IN  /\ createOk => CanCreate(r.path)
            /\ ~createOk => ioFail = "none"
            /\ fs' = r.fs
            /\ ret' = r.gen
            /\ err' = r.err
            /\ log' = Append(log, CreateEntry(0, r, createOk, ioFail))
    /\ pc' = "returned"
    /\ UNCHANGED <<settings, db, tables, idx, arg>>

NextEmit == CallCreateStructOfTable

SpecEmit == InitEmit /\ [][NextEmit]_vars

----------------------------------------------------------------------------
(* Vocabulary of the claims *)

IntegerFamily ==
    {"integer", "bigint", "bigserial", "smallint", "smallserial", "serial", "int",
     "tinyint", "mediumint"}
FloatFamily == {"double precision", "numeric", "decimal", "real", "float", "double"}
TextFamily ==
    {"character varying", "character", "text", "char", "varchar", "binary",
     "varbinary", "blob"}
TemporalFamily ==
    {"time", "timestamp", "time with time zone", "timestamp with time zone",
     "time without time zone", "timestamp without time zone", "date", "datetime",
     "year"}
BooleanFamily == {"boolean"}
Recognized ==
    IntegerFamily \cup FloatFamily \cup TextFamily \cup TemporalFamily \cup BooleanFamily

NonNullableTypes == {"int", "float64", "string", "time.Time", "bool"}
SqlNullTypes == {"sql.NullInt64", "sql.NullFloat64", "sql.NullString", "sql.NullBool"}

\* the field type the mapping table gives
TableType(family, isNullable) ==
    CASE family = "integer" -> IF isNullable = "YES" THEN "sql.NullInt64" ELSE "int"
      [] family = "float" -> IF isNullable = "YES" THEN "sql.NullFloat64" ELSE "float64"
      [] family = "text" -> IF isNullable = "YES" THEN "sql.NullString" ELSE "string"
      [] family = "temporal" -> IF isNullable = "YES" THEN "pq.NullTime" ELSE "time.Time"
      [] family = "boolean" -> IF isNullable = "YES" THEN "sql.NullBool" ELSE "bool"
      [] OTHER -> "sql.NullString"

FamilyOf(t) ==
    CASE t \in IntegerFamily -> "integer"
      [] t \in FloatFamily -> "float"
      [] t \in TextFamily -> "text"
      [] t \in TemporalFamily -> "temporal"
      [] t \in BooleanFamily -> "boolean"
      [] OTHER -> "unrecognized"

Last(q) == q[Len(q)]

IsCreateEntry(e) == e.op = "createStructOfTable"

\* the lines of a text that contain the token
LinesWith(text, tok) == { i \in DOMAIN text : Contains(text[i], tok) }

----------------------------------------------------------------------------
(* C1 *)

\* C1: the type mapper follows the mapping table.  For a raw type of a
\* recognized family the result is the family's plain type when isNullable is
\* "NO" and its nullable type when it is "YES"; isTime is true exactly for the
\* temporal family; an unrecognized raw type gives (sql.NullString, false);
\* and isNullable = "YES" never gives a non-nullable type.
C1_MapperFollowsTable ==
    pc = "returned" =>
        /\ ret.goType = TableType(FamilyOf(arg.dbDataType), arg.isNullable)
        /\ ret.isTime = (arg.dbDataType \in TemporalFamily)
        /\ arg.dbDataType \notin Recognized =>
                ret = [goType |-> "sql.NullString", isTime |-> FALSE]
        /\ arg.isNullable = "YES" => ret.goType \notin NonNullableTypes

C1_Witness ==
    /\ pc = "returned"
    /\ arg = [dbDataType |-> "timestamp with time zone", isNullable |-> "YES"]
    /\ ret = [goType |-> "pq.NullTime", isTime |-> TRUE]

----------------------------------------------------------------------------
(* C2 *)

\* the step is a call of GetColumnsOfTable that fails
ColumnFetchFails ==
    /\ Len(log') = Len(log) + 1
    /\ Last(log').op = "GetColumnsOfTable"
    /\ Last(log').err # "nil"

\* C2: when GetColumnsOfTable fails for the table the loop is at, run returns
\* that error in the same step: the files on disk and the tables stay as they
\* are, createStructOfTable has not been called for this or a later table, the
\* columns of this table were asked for once and those of no later table, and
\* nothing happens after the return.
C2_ColumnFetchFailureAborts ==
    [][ /\ pc # "returned"
        /\ ColumnFetchFails =>
            /\ pc' = "returned"
            /\ err' = Last(log').err
            /\ fs' = fs
            /\ tables' = tables
            /\ Last(log').table = idx
            /\ \A i \in DOMAIN log' :
                /\ IsCreateEntry(log'[i]) => log'[i].table < idx
                /\ (i < Len(log') /\ log'[i].op = "GetColumnsOfTable") => log'[i].table < idx
      ]_vars

C2_Witness ==
    /\ pc = "returned"
    /\ err = "GetColumnsOfTable failed"
    /\ idx = 2
    /\ Len(tables) = 2
    /\ DOMAIN fs # {}
    /\ \A p \in DOMAIN fs : fs[p] # <<>>

----------------------------------------------------------------------------
(* C3 *)

\* the tag of a field line: what stands between the back quotes
TagOf(line) == SubSeq(line, IndexOf(line, BQ) + 1, Len(line) - 1)

\* the field lines of a text: a tab, a name, a type and a tag
FieldLinesOf(text) == SelectSeq(text, LAMBDA l : Len(l) > 1 /\ l[1] = "\t")

\* the tag the claim gives a column
ClaimedTag(s, column) ==
    LET detected ==
            \/ Contains(column.ColumnDefault, "nextval")
            \/ Contains(column.ColumnKey, "PRI") /\ Contains(column.Extra, "auto_increment")
        markers == IF detected THEN <<",PRIMARY_KEY,SERIAL,AUTO_INCREMENT">> ELSE <<>>
        dbTag == <<"db:\"">> \o column.ColumnName \o <<"\"">>
        stblTag == <<" stbl:\"">> \o column.ColumnName \o markers \o <<"\"">>
    IN  IF s.IsMastermindStructableOnly THEN stblTag
        ELSE IF s.IsMastermindStructable THEN dbTag \o stblTag
        ELSE dbTag

\* the file of the last call was created and written in full
WrittenInFull ==
    /\ Len(log) > 0
    /\ IsCreateEntry(Last(log))
    /\ Last(log).created
    /\ Last(log).ioFail = "none"
    /\ Last(log).formatErr = "nil"

\* C3: the tag of every field is db:"<name>" alone without annotation flags,
\* db:"<name>" followed by stbl:"<name><markers>" with IsMastermindStructable
\* and without IsMastermindStructableOnly, and stbl:"<name><markers>" alone
\* with IsMastermindStructableOnly; the markers are present exactly for a
\* detected auto-increment primary key.  This holds of the generated field
\* lines and of the field lines of the file when it is written in full.
C3_FieldTags ==
    pc = "returned" =>
        /\ Len(ret.colBuffer) >= Len(arg.Columns)
        /\ \A j \in DOMAIN arg.Columns :
                TagOf(ret.colBuffer[j]) = ClaimedTag(settings, arg.Columns[j])
        /\ WrittenInFull =>
                LET written == FieldLinesOf(fs[Last(log).path])
                IN  /\ Len(written) = Len(arg.Columns)
                    /\ \A j \in DOMAIN arg.Columns :
                            TagOf(written[j]) = ClaimedTag(settings, arg.Columns[j])

C3_Witness ==
    /\ pc = "returned"
    /\ WrittenInFull
    /\ settings.IsMastermindStructableOnly
    /\ Len(arg.Columns) = 2
    /\ arg.Columns[1].ColumnKey = <<"PRI">> /\ arg.Columns[1].Extra = <<"auto_increment">>
    /\ arg.Columns[2].ColumnKey = <<"PRI">> /\ arg.Columns[2].Extra = <<>>
    /\ TagOf(FieldLinesOf(fs[Last(log).path])[1])
            = <<" stbl:\"", "i", "d", ",PRIMARY_KEY,SERIAL,AUTO_INCREMENT", "\"">>
    /\ TagOf(FieldLinesOf(fs[Last(log).path])[2]) = <<" stbl:\"", "i", "d", "\"">>

----------------------------------------------------------------------------
(* C4 *)

\* C4: every file createStructOfTable creates lies in the output directory
\* VerifySettings stored: a separator stands between the directory and the
\* file name.
C4_FileInsideOutputDirectory ==
    \A i \in DOMAIN log :
        (IsCreateEntry(log[i]) /\ log[i].created) =>
            /\ Dir(log[i].path) = settings.OutputFilePath
            /\ log[i].path = Clean(settings.OutputFilePath \o <<"/">>
                                    \o FileName(settings, tables[log[i].table]))

----------------------------------------------------------------------------
(* C5 *)

\* C5: no return from Run leaves an opened handle unclosed.
C5_HandleClosedOnReturn == pc = "returned" => db # "open"

----------------------------------------------------------------------------
(* C6 *)

\* C6: after a successful run (the table names are pairwise distinct) the
\* number of files written equals the number of tables: distinct tables go
\* to distinct paths.
C6_OneFilePerTable ==
    (pc = "returned" /\ err = "nil") =>
        /\ Cardinality(DOMAIN fs) = Len(tables)
        /\ \A i, j \in DOMAIN log :
                (IsCreateEntry(log[i]) /\ IsCreateEntry(log[j]) /\ i # j) =>
                    log[i].path # log[j].path

----------------------------------------------------------------------------
(* C7 *)

\* C7: when the file of a table cannot be created or cannot be written (Write,
\* Sync or Close fails), createStructOfTable returns an error and run returns
\* it without processing a later table.
C7_EmissionFailureIsFatal ==
    \A i \in DOMAIN log :
        (IsCreateEntry(log[i]) /\ (~log[i].created \/ log[i].ioFail # "none")) =>
            /\ log[i].err # "nil"
            /\ i = Len(log)
            /\ pc = "returned"
            /\ err = log[i].err

----------------------------------------------------------------------------
(* C8 *)

\* C8: when format.Source fails on the generated text, the raw generated text
\* is written to the file, which is not empty, and no error is reported.
C8_FormatFailureWritesRawText ==
    (/\ Len(log) > 0
     /\ IsCreateEntry(Last(log))
     /\ Last(log).created
     /\ Last(log).ioFail = "none"
     /\ Last(log).formatErr # "nil") =>
        /\ Last(log).err = "nil"
        /\ fs[Last(log).path] = ret.buffer
        /\ fs[Last(log).path] # <<>>

----------------------------------------------------------------------------
(* C9 *)

\* C9: the text written has an import block only if some column is nullable,
\* some column is temporal or recorder augmentation is active.
C9_ImportBlockOnlyWhenNeeded ==
    (pc = "returned" /\ WrittenInFull
        /\ LinesWith(fs[Last(log).path], "import (") # {}) =>
        \/ \E j \in DOMAIN arg.Columns : arg.Columns[j].IsNullable = "YES"
        \/ \E j \in DOMAIN arg.Columns : arg.Columns[j].DataType \in TemporalFamily
        \/ /\ settings.IsMastermindStructableRecorder
           /\ settings.IsMastermindStructable \/ settings.IsMastermindStructableOnly

----------------------------------------------------------------------------
(* C10 *)

\* some line of the text uses one of the tokens
Uses(text, toks) == \E tok \in toks : LinesWith(text, tok) # {}

\* C10: the text written imports every package it refers to: database/sql
\* for a sql.Null* field, time for a time.Time field, github.com/lib/pq for a
\* pq.NullTime field and github.com/Masterminds/structable for the embedded
\* structable.Recorder.
C10_ImportsCoverReferences ==
    (pc = "returned" /\ WrittenInFull) =>
        LET text == fs[Last(log).path]
        IN  /\ Uses(text, SqlNullTypes) => Uses(text, {"\t\"database/sql\""})
            /\ Uses(text, {"time.Time"}) => Uses(text, {"\t\"time\""})
            /\ Uses(text, {"pq.NullTime"}) => Uses(text, {"\"github.com/lib/pq\""})
            /\ Uses(text, {"structable.Recorder"}) =>
                    Uses(text, {"\"github.com/Masterminds/structable\""})

====
